---- MODULE Spec2Model ----
(***************************************************************************)
(* A model of himalaya's closed-form ridge solver (ridge/_solvers.py) and  *)
(* of the fit methods of its kernel ridge estimators                       *)
(* (kernel_ridge/_sklearn_api.py).                                         *)
(*                                                                         *)
(* Arrays are sequences (a matrix is a sequence of rows, a 3-d array a     *)
(* sequence of matrices), indexed from 1 where Python indexes from 0.      *)
(* Floating point numbers are modelled by exact rationals <<num, den>>,    *)
(* so "equal within tolerance" is modelled by equality.                    *)
(***************************************************************************)
EXTENDS Integers, Sequences, FiniteSets, TLC

\* Bounds of the model.
MaxDim == 2
MaxTargets == 3
MaxEig == 2
MaxAlpha == 3

\* Bounds of the estimator part.
MaxSamples == 2
MaxKernels == 2
MaxFits == 2
\* Bound of the gradient-descent part: the largest max_iter.
MaxIter == 3

\* solve_ridge_svd: the call's arguments, what backend.svd answers, the
\* result, and where the call stands.
VARIABLES call, backend, ret, pc
\* The estimators: the constructor's parameters, the fitted attributes, the
\* last fit call (arguments, the caller's array afterwards, outcome) and the
\* number of fit calls so far; the last predict or score call made since the
\* last fit call.
VARIABLES estimator, fitted, fitcall, nfits, predcall
\* The gradient-descent solver: its arguments, its state, the dual
\* coefficients, the number of iterations made and what it returned.
VARIABLES gd

solverVars == <<call, backend, ret, pc>>
fitVars == <<estimator, fitted, fitcall, nfits, predcall>>
vars ==
    <<call, backend, ret, pc, estimator, fitted, fitcall, nfits, predcall, gd>>

---------------------------------------------------------------------------
\* Rational numbers: <<n, d>> with d > 0 and gcd(n, d) = 1; NaN is <<0, 0>>.

Abs(x) == IF x < 0 THEN -x ELSE x

RECURSIVE Gcd(_, _)
Gcd(a, b) == IF b = 0 THEN a ELSE Gcd(b, a % b)

Frac(n, d) ==
    LET g == Gcd(Abs(n), Abs(d))
        s == IF d < 0 THEN -1 ELSE 1
    IN  <<(s * n) \div g, (s * d) \div g>>

NaN == <<0, 0>>
Zero == <<0, 1>>
RAdd(p, q) == Frac(p[1] * q[2] + q[1] * p[2], p[2] * q[2])
RMul(p, q) == Frac(p[1] * q[1], p[2] * q[2])
RDiv(p, q) == Frac(p[1] * q[2], p[2] * q[1])
RNeg(p) == <<-p[1], p[2]>>
RLt(p, q) == p[1] * q[2] < q[1] * p[2]

RECURSIVE RSum(_, _)
RSum(f, n) == IF n = 0 THEN Zero ELSE RAdd(RSum(f, n - 1), f[n])

---------------------------------------------------------------------------
\* Arrays.

\* The array a, with every element computed.
Eager(a) == IF a = a THEN a ELSE a

Rows(M) == Len(M)
Cols(M) == Len(M[1])

Transpose(M) ==
    Eager([j \in 1..Cols(M) |-> [i \in 1..Rows(M) |-> M[i][j]]])

\* A @ B for 2-d arrays.
MatMul(A, B) ==
    Eager([i \in 1..Rows(A) |-> [j \in 1..Cols(B) |->
        RSum([k \in 1..Cols(A) |-> RMul(A[i][k], B[k][j])], Cols(A))]])

\* M @ B3 for a 2-d M and a 3-d B3: B3 is a stack of matrices over its first
\* index, and M multiplies each of them.
CanMatMul23(M, B3) == Cols(M) = Rows(B3[1])
MatMul23(M, B3) == Eager([b \in 1..Len(B3) |-> MatMul(M, B3[b])])

\* A3 @ B3 for 3-d arrays: the first index is the batch, broadcast when one of
\* the two has a batch of one.
Pick(A3, b) == IF Len(A3) = 1 THEN A3[1] ELSE A3[b]
Max(a, b) == IF a < b THEN b ELSE a
CanMatMul33(A3, B3) ==
    /\ Len(A3) = Len(B3) \/ Len(A3) = 1 \/ Len(B3) = 1
    /\ Cols(A3[1]) = Rows(B3[1])
MatMul33(A3, B3) ==
    Eager([b \in 1..Max(Len(A3), Len(B3)) |->
              MatMul(Pick(A3, b), Pick(B3, b))])

\* backend.transpose(T3, (2, 0, 1))
Transpose201(T3) ==
    Eager([a \in 1..Len(T3[1][1]) |-> [b \in 1..Len(T3) |->
        [j \in 1..Len(T3[1]) |-> T3[b][j][a]]]])

\* T3[:, :, 0]
Take0(T3) ==
    Eager([a \in 1..Len(T3) |-> [b \in 1..Len(T3[1]) |-> T3[a][b][1]]])

\* M.T[:, :, None]
ColumnsAsStack(M) ==
    Eager([t \in 1..Cols(M) |-> [j \in 1..Rows(M) |-> <<M[j][t]>>]])

\* backend.check_arrays: the arrays as floating point arrays.
AsFloat(M) ==
    Eager([i \in 1..Len(M) |-> [j \in 1..Len(M[1]) |-> <<M[i][j], 1>>]])
AsFloat1(v) == Eager([i \in 1..Len(v) |-> <<v[i], 1>>])

---------------------------------------------------------------------------
\* ridge/_solvers.py: solve_ridge_svd.

\* What backend.svd(X, full_matrices=False) may hand back for X of shape
\* (n, f), with k = min(n, f): U of shape (n, k) with orthonormal columns,
\* k values in descending order and Vt of shape (k, f) with orthonormal rows,
\* such that X = U @ diag(values) @ Vt. The function's own comment anticipates
\* values below zero, so the values range over negative numbers too.
Min(a, b) == IF a < b THEN a ELSE b
EigValues == (0 - 1)..MaxEig
Injections(k, n) ==
    {s \in [1..k -> 1..n] : \A a, b \in 1..k : a # b => s[a] # s[b]}
Descending(k) ==
    {e \in [1..k -> EigValues] : \A b \in 1..(k - 1) : e[b] >= e[b + 1]}
Factorisations(n, f) ==
    {[U |-> [i \in 1..n |-> [b \in 1..Min(n, f) |-> IF s[b] = i THEN 1 ELSE 0]],
      eigenvalues |-> e,
      Vt |-> [b \in 1..Min(n, f) |-> [j \in 1..f |-> IF t[b] = j THEN 1 ELSE 0]]] :
        s \in Injections(Min(n, f), n), t \in Injections(Min(n, f), f),
        e \in Descending(Min(n, f))}

RECURSIVE ISum(_, _)
ISum(f, n) == IF n = 0 THEN 0 ELSE ISum(f, n - 1) + f[n]

\* U @ diag(eigenvalues) @ Vt
Product(d) ==
    [i \in 1..Rows(d.U) |-> [j \in 1..Cols(d.Vt) |->
        ISum([b \in 1..Len(d.eigenvalues) |->
                 d.U[i][b] * d.eigenvalues[b] * d.Vt[b][j]],
             Len(d.eigenvalues))]]

NoDecomposition == [U |-> <<>>, eigenvalues |-> <<>>, Vt |-> <<>>]

Returned(weights, eigenvalues) ==
    [status |-> "returned", error |-> "", msg |-> "",
     weights |-> weights, eigenvalues |-> eigenvalues]
Raised(error, msg, eigenvalues) ==
    [status |-> "raised", error |-> error, msg |-> msg,
     weights |-> <<>>, eigenvalues |-> eigenvalues]

\* Lines 38-39: a number becomes an array of one element.
AlphaArray(alpha) == IF alpha.scalar THEN <<alpha.num>> ELSE alpha.arr

\* Line 49: inverse[b, a] = eigenvalues[b] / (alpha[a] + eigenvalues[b] ** 2)
Inverse(eigenvalues, alpha) ==
    Eager([b \in 1..Len(eigenvalues) |-> [a \in 1..Len(alpha) |->
        RDiv(eigenvalues[b],
             RAdd(alpha[a], RMul(eigenvalues[b], eigenvalues[b])))]])

\* Line 72: iUT = inverse[:, None, :] * U.T[:, :, None], of shape (k, n, A)
InverseUT(inverse, U) ==
    Eager([b \in 1..Len(inverse) |-> [j \in 1..Rows(U) |->
        [a \in 1..Len(inverse[1]) |-> RMul(inverse[b][a], U[j][b])]]])

\* Lines 74-75, the ordering taken when Y.shape[0] < Y.shape[1]. Vt.T is 2-d
\* and iUT 3-d, so the first product multiplies Vt.T with each iUT[b].
CanWeightsFewSamples(Vt, iUT, Y) ==
    /\ CanMatMul23(Transpose(Vt), iUT)
    /\ CanMatMul33(Transpose201(MatMul23(Transpose(Vt), iUT)),
                   ColumnsAsStack(Y))
WeightsFewSamples(Vt, iUT, Y) ==
    Transpose(Take0(MatMul33(Transpose201(MatMul23(Transpose(Vt), iUT)),
                             ColumnsAsStack(Y))))

\* Lines 77-78, the other ordering.
WeightsManySamples(Vt, iUT, Y) ==
    MatMul(Transpose(Vt),
           Transpose(Take0(MatMul33(Transpose201(iUT), ColumnsAsStack(Y)))))

\* Lines 72-80. A product of arrays whose shapes do not match raises.
FormWeights(inverse, U, Vt, Y, eigenvalues) ==
    LET iUT == InverseUT(inverse, U)
    IN  IF Rows(Y) < Cols(Y)
        THEN IF CanWeightsFewSamples(Vt, iUT, Y)
             THEN Returned(WeightsFewSamples(Vt, iUT, Y), eigenvalues)
             ELSE Raised("ValueError", "matmul: shape mismatch", eigenvalues)
        ELSE Returned(WeightsManySamples(Vt, iUT, Y), eigenvalues)

NanConditionInclusive(alpha, eigenvalues) ==
    ~RLt(RMul(RNeg(eigenvalues[1]), <<2, 1>>), alpha[1])

\* Line 54: alpha < -eigenvalues[0] * 2, for an alpha of one element.
NanCondition(alpha, eigenvalues) ==
    RLt(alpha[1], RMul(RNeg(eigenvalues[1]), <<2, 1>>))

\* Lines 55-56: backend.ones_like(Y) * nan
NanLike(Y) == Eager([i \in 1..Rows(Y) |-> [t \in 1..Cols(Y) |-> NaN]])

\* Line 61: eigenvalues[eigenvalues < 0] = 0
Clamp(eigenvalues) ==
    Eager([b \in 1..Len(eigenvalues) |->
        IF RLt(eigenvalues[b], Zero) THEN Zero ELSE eigenvalues[b]])

\* Lines 52-70: the policy for a negative first value. `inverse` was computed
\* on line 49, before this block. The test of line 54 is the truth value of
\* an array, which raises when the array has more than one element.
NegativePolicy(negative_eigenvalues, inverse, U, eigenvalues, Vt, Y, alpha) ==
    CASE negative_eigenvalues = "nan" ->
            IF Len(alpha) # 1
            THEN Raised("ValueError", "truth value of an array is ambiguous",
                        eigenvalues)
            ELSE IF NanCondition(alpha, eigenvalues)
                 THEN Returned(NanLike(Y), eigenvalues)
                 ELSE FormWeights(inverse, U, Vt, Y, eigenvalues)
      [] negative_eigenvalues = "zeros" ->
            FormWeights(inverse, U, Vt, Y, Clamp(eigenvalues))
      [] negative_eigenvalues = "error" ->
            Raised("RuntimeError", "Negative eigenvalues.", eigenvalues)
      [] OTHER ->
            Raised("ValueError", "Unknown negative_eigenvalues", eigenvalues)

\* Lines 37-80; d is what backend.svd returns on line 45.
solve_ridge_svd(X, Y, alpha, method, negative_eigenvalues, d) ==
    IF method # "svd"
    THEN Raised("ValueError", "Unknown method", <<>>)
    ELSE LET al == AsFloat1(AlphaArray(alpha))
             Yf == AsFloat(Y)
             U == AsFloat(d.U)
             eigenvalues == AsFloat1(d.eigenvalues)
             Vt == AsFloat(d.Vt)
             inverse == Inverse(eigenvalues, al)
         IN  IF RLt(eigenvalues[1], Zero)
             THEN NegativePolicy(negative_eigenvalues, inverse, U,
                                 eigenvalues, Vt, Yf, al)
             ELSE FormWeights(inverse, U, Vt, Yf, eigenvalues)

---------------------------------------------------------------------------
\* kernel_ridge/_sklearn_api.py: the fit methods. The arrays of this part
\* hold integers; sample weights are perfect squares, so that their square
\* roots are integers too.

\* A @ B for 2-d arrays of integers.
IMatMul(A, B) ==
    Eager([i \in 1..Rows(A) |-> [j \in 1..Cols(B) |->
        ISum([k \in 1..Cols(A) |-> A[i][k] * B[k][j]], Cols(A))]])

\* backend.sqrt
Sqrt(x) == CHOOSE r \in 0..x : r * r = x

\* The solver tables, as the docstrings of the estimators list them.
KERNEL_RIDGE_SOLVERS ==
    {"eigenvalues", "conjugate_gradient", "gradient_descent"}
MULTIPLE_KERNEL_RIDGE_SOLVERS == {"random_search", "hyper_gradient"}
WEIGHTED_KERNEL_RIDGE_SOLVERS == {"conjugate_gradient", "gradient_descent"}

\* A call of a solver function with the arguments fit hands it; an argument
\* that is not passed is <<>>. The solvers are functions of their arguments:
\* what a call returns is identified by the call.
SolverCall(table, solver, Ks, Y, alpha, deltas, cv) ==
    [table |-> table, solver |-> solver, Ks |-> Ks, Y |-> Y, alpha |-> alpha,
     deltas |-> deltas, cv |-> cv]
\* One of the arrays a solver call returns, with its shape.
Result(solverCall, part, shape) ==
    [of |-> solverCall, part |-> part, shape |-> shape, index |-> <<>>]
ColumnKept(a) == a
\* a[:, 0] of a returned array
Column0(a) == [a EXCEPT !.shape = <<a.shape[1]>>, !.index = <<0>>]

\* An attribute of the estimator: <<>> while it is not set, <<value>> after.
Unfitted ==
    [dtype_ |-> <<>>, deltas_ |-> <<>>, dual_coef_ |-> <<>>,
     cv_scores_ |-> <<>>, X_fit_ |-> <<>>, n_features_in_ |-> <<>>]

\* What a fit call leaves: the attributes, the array the method worked on
\* (X after check_array), the solver calls it made, and what it raised.
FitReturn(attrs, X, calls) ==
    [fitted |-> attrs, X |-> X, calls |-> calls, raised |-> "", msg |-> ""]
FitRaise(attrs, X, error, msg) ==
    [fitted |-> attrs, X |-> X, calls |-> <<>>, raised |-> error, msg |-> msg]

\* y[:, None]
AddAxis(v) == Eager([i \in 1..Len(v) |-> <<v[i]>>])
\* y as a 2-d array (lines 128-131, 451-454, 618-621)
Targets2d(y) == IF y.ndim = 1 THEN AddAxis(y.val) ELSE y.val

\* Lines 136-137: sw = backend.sqrt(sample_weight)[:, None]; y = y * sw
ScaleTargets(y2, sample_weight) ==
    Eager([i \in 1..Rows(y2) |-> [t \in 1..Cols(y2) |->
        y2[i][t] * Sqrt(sample_weight[i])]])

ScaleKernelRowsOnly(K, sample_weight) ==
    Eager([i \in 1..Rows(K) |-> [j \in 1..Cols(K) |->
        K[i][j] * Sqrt(sample_weight[i])]])

\* Line 138: K *= sw @ sw.T, element by element
ScaleKernel(K, sample_weight) ==
    Eager([i \in 1..Rows(K) |-> [j \in 1..Cols(K) |->
        K[i][j] * (Sqrt(sample_weight[i]) * Sqrt(sample_weight[j]))]])

\* Lines 461, 628: Ks *= (sw @ sw.T)[None]
ScaleKernels(Ks, sample_weight) ==
    Eager([k \in 1..Len(Ks) |-> ScaleKernel(Ks[k], sample_weight)])

\* pairwise_kernels(X, metric="linear"): K = X @ X.T
LinearKernel(X) == IMatMul(X, Transpose(X))

GetKernelComputed(self, X) == LinearKernel(X)
\* KernelRidge._get_kernel(X), lines 204-208. With kernel="precomputed" the
\* kernel is the array X itself, not a copy.
GetKernel(self, X) == IF self.kernel = "precomputed" THEN X ELSE LinearKernel(X)

\* _BaseWeightedKernelRidge._get_kernels(X), lines 297-319: the stack, or the
\* error raised. zip stops at the shorter of kernels and kernels_params.
KernelsParams(self) ==
    IF self.kernels_params.none \/ Len(self.kernels_params.list) = 0
    THEN [i \in 1..Len(self.kernels.list) |-> <<>>]
    ELSE self.kernels_params.list
\* zip(self.kernels, kernels_params), line 314: the (metric, params) pairs
\* the loop hands to pairwise_kernels.
Zip(kernels, kernels_params) ==
    [i \in 1..Min(Len(kernels), Len(kernels_params)) |->
        [metric |-> kernels[i], params |-> kernels_params[i]]]
GetKernels(self, X) ==
    CASE self.kernels.kind = "precomputed" ->
            [raised |-> "", kernels |-> X, pairs |-> <<>>]
      [] self.kernels.kind = "list" ->
            LET pairs == Zip(self.kernels.list, KernelsParams(self))
            IN  [raised |-> "",
                 kernels |-> Eager([i \in 1..Len(pairs) |-> LinearKernel(X)]),
                 pairs |-> pairs]
      [] OTHER -> [raised |-> "ValueError", kernels |-> <<>>, pairs |-> <<>>]

\* X.shape[-1], lines 480 and 656: X is a stack of kernels or a 2-d array.
LastDim(self, X) ==
    IF self.kernels.kind = "precomputed" THEN Len(X[1][1]) ELSE Len(X[1])

\* X.shape[1] of a stack of kernels, X.shape[0] otherwise (lines 439, 606).
SamplesOf(self, X) ==
    IF self.kernels.kind = "precomputed" THEN Len(X[1]) ELSE Len(X)

\* Lines 117-124, 439-447, 606-614: the sample counts.
SamplesConsistent(n_samples, y, sample_weight) ==
    /\ n_samples = Len(y.val)
    /\ sample_weight.none \/ Len(sample_weight.val) = Len(y.val)

\* KernelRidge.fit, lines 111-154.
KernelRidgeFit(self, attrs, X, y, sample_weight) ==
    LET a1 == [attrs EXCEPT !.dtype_ = <<"float64">>]
    IN  IF ~SamplesConsistent(Len(X), y, sample_weight)
        THEN FitRaise(a1, X, "ValueError", "Inconsistent number of samples.")
        ELSE
        LET K0 == GetKernel(self, X)
            y2 == Targets2d(y)
            ys == IF sample_weight.none THEN y2
                  ELSE ScaleTargets(y2, sample_weight.val)
            K == IF sample_weight.none THEN K0
                 ELSE ScaleKernel(K0, sample_weight.val)
            \* K *= ... writes into X when K is X
            Xl == IF self.kernel = "precomputed" THEN K ELSE X
        IN  IF self.solver \in KERNEL_RIDGE_SOLVERS
            THEN LET c == SolverCall("KERNEL_RIDGE_SOLVERS", self.solver, K,
                                     ys, <<self.alpha>>, <<>>, <<>>)
                     dual == Result(c, "dual_coef", <<Rows(ys), Cols(ys)>>)
                 IN  FitReturn([a1 EXCEPT
                         !.dual_coef_ = <<IF y.ndim = 1 THEN Column0(dual)
                                          ELSE dual>>,
                         !.X_fit_ = <<Xl>>,
                         !.n_features_in_ = <<Cols(X)>>], Xl, <<c>>)
            ELSE FitRaise(a1, Xl, "ValueError", "Unknown solver")

\* MultipleKernelRidgeCV.fit, lines 430-482.
MultipleKernelRidgeCVFit(self, attrs, X, y, sample_weight) ==
    LET a1 == [attrs EXCEPT !.dtype_ = <<"float64">>]
        n_samples == SamplesOf(self, X)
        got == GetKernels(self, X)
    IN  IF ~SamplesConsistent(n_samples, y, sample_weight)
        THEN FitRaise(a1, X, "ValueError", "Inconsistent number of samples.")
        ELSE IF got.raised # ""
        THEN FitRaise(a1, X, got.raised, "Parameter 'kernels' has to be a list")
        ELSE
        LET y2 == Targets2d(y)
            ys == IF sample_weight.none THEN y2
                  ELSE ScaleTargets(y2, sample_weight.val)
            Ks == IF sample_weight.none THEN got.kernels
                  ELSE ScaleKernels(got.kernels, sample_weight.val)
            Xl == IF self.kernels.kind = "precomputed" THEN Ks ELSE X
        IN  IF self.solver \in MULTIPLE_KERNEL_RIDGE_SOLVERS
            THEN LET c == SolverCall("MULTIPLE_KERNEL_RIDGE_SOLVERS",
                                     self.solver, Ks, ys, <<>>, <<>>,
                                     <<self.cv>>)
                     deltas == Result(c, "deltas", <<Len(Ks), Cols(ys)>>)
                     dual == Result(c, "dual_coef", <<Rows(ys), Cols(ys)>>)
                     scores == Result(c, "cv_scores", <<>>)
                 IN  FitReturn([a1 EXCEPT
                         !.deltas_ = <<IF y.ndim = 1 THEN Column0(deltas)
                                       ELSE deltas>>,
                         !.dual_coef_ = <<IF y.ndim = 1 THEN Column0(dual)
                                          ELSE dual>>,
                         !.cv_scores_ = <<scores>>,
                         !.X_fit_ = <<Xl>>,
                         !.n_features_in_ = <<LastDim(self, X)>>], Xl, <<c>>)
            ELSE FitRaise(a1, Xl, "ValueError", "Unknown solver")

\* deltas="zeros", the default of line 567
DefaultDeltas == [zeros |-> TRUE, ndim |-> 0, val |-> <<>>]
\* backend.zeros_like(Ks, shape=(n_kernels, 1)), line 632
ZerosColumn(n_kernels) ==
    [ndim |-> 2, val |-> [k \in 1..n_kernels |-> <<0>>]]
\* self.deltas_[:, 0], line 653, of a 2-d array of numbers
FirstColumn(a) ==
    [ndim |-> 1, val |-> [k \in 1..Len(a.val) |-> a.val[k][1]]]
DeltasAlwaysConsistent(deltas_, n_kernels) == TRUE
\* Line 635: self.deltas_.shape[0] != n_kernels raises
DeltasConsistent(deltas_, n_kernels) == Len(deltas_.val) = n_kernels

\* WeightedKernelRidge.fit, lines 597-658. Line 637 reads self.deltas_ndim,
\* an attribute the estimator does not have.
WeightedKernelRidgeFit(self, attrs, X, y, sample_weight) ==
    LET a1 == [attrs EXCEPT !.dtype_ = <<"float64">>]
        n_samples == SamplesOf(self, X)
        got == GetKernels(self, X)
    IN  IF ~SamplesConsistent(n_samples, y, sample_weight)
        THEN FitRaise(a1, X, "ValueError", "Inconsistent number of samples.")
        ELSE IF got.raised # ""
        THEN FitRaise(a1, X, got.raised, "Parameter 'kernels' has to be a list")
        ELSE
        LET y2 == Targets2d(y)
            ys == IF sample_weight.none THEN y2
                  ELSE ScaleTargets(y2, sample_weight.val)
            Ks == IF sample_weight.none THEN got.kernels
                  ELSE ScaleKernels(got.kernels, sample_weight.val)
            Xl == IF self.kernels.kind = "precomputed" THEN Ks ELSE X
            n_kernels == Len(Ks)
            deltas_ == IF self.deltas.zeros
                       THEN ZerosColumn(n_kernels)
                       ELSE [ndim |-> self.deltas.ndim, val |-> self.deltas.val]
            a2 == [a1 EXCEPT !.deltas_ = <<deltas_>>]
        IN  IF ~self.deltas.zeros /\ ~DeltasConsistent(deltas_, n_kernels)
            THEN FitRaise(a2, Xl, "ValueError", "Inconsistent number of kernels.")
            ELSE IF ~self.deltas.zeros
            THEN FitRaise(a2, Xl, "AttributeError", "deltas_ndim")
            ELSE IF self.solver \in WEIGHTED_KERNEL_RIDGE_SOLVERS
            THEN LET c == SolverCall("WEIGHTED_KERNEL_RIDGE_SOLVERS",
                                     self.solver, Ks, ys, <<>>, <<deltas_>>,
                                     <<>>)
                     dual == Result(c, "dual_coef", <<Rows(ys), Cols(ys)>>)
                 IN  FitReturn([a2 EXCEPT
                         !.dual_coef_ = <<IF y.ndim = 1 THEN Column0(dual)
                                          ELSE dual>>,
                         !.deltas_ = <<IF y.ndim = 1 THEN FirstColumn(deltas_)
                                       ELSE deltas_>>,
                         !.X_fit_ = <<Xl>>,
                         !.n_features_in_ = <<LastDim(self, X)>>], Xl, <<c>>)
            ELSE FitRaise(a2, Xl, "ValueError", "Unknown solver")

\* estimator.fit(X, y, sample_weight)
FitOf(self, attrs, X, y, sample_weight) ==
    CASE self.cls = "KernelRidge" ->
            KernelRidgeFit(self, attrs, X, y, sample_weight)
      [] self.cls = "MultipleKernelRidgeCV" ->
            MultipleKernelRidgeCVFit(self, attrs, X, y, sample_weight)
      [] self.cls = "WeightedKernelRidge" ->
            WeightedKernelRidgeFit(self, attrs, X, y, sample_weight)

\* check_is_fitted(self), lines 170, 243, 278: sklearn's check, called with
\* no attribute names, passes when the estimator has any attribute whose name
\* ends with an underscore.
IsFitted(attrs) == \E a \in DOMAIN attrs : attrs[a] # <<>>

\* What a predict or score call leaves: whether check_is_fitted let it pass,
\* the fitted attributes it read (or tried to read) in order, whether it
\* computed kernels, what it raised and what it returned.
PredictReturn(reads, result) ==
    [checked |-> TRUE, reads |-> reads, kernels |-> TRUE, raised |-> "",
     result |-> <<result>>]
PredictRaise(checked, reads, kernels, error) ==
    [checked |-> checked, reads |-> reads, kernels |-> kernels,
     raised |-> error, result |-> <<>>]

\* pairwise_kernels(X, Y, metric="linear"): K = X @ Y.T
CrossKernel(X, Y) == IMatMul(X, Transpose(Y))

\* KernelRidge.predict, lines 170-178.
KernelRidgePredict(self, attrs, X) ==
    IF ~IsFitted(attrs)
    THEN PredictRaise(FALSE, <<>>, FALSE, "NotFittedError")
    ELSE IF attrs.dtype_ = <<>>
    THEN PredictRaise(TRUE, <<"dtype_">>, FALSE, "AttributeError")
    ELSE IF attrs.X_fit_ = <<>>
    THEN PredictRaise(TRUE, <<"dtype_", "X_fit_">>, FALSE, "AttributeError")
    ELSE IF self.kernel # "precomputed" /\ Cols(X) # Cols(attrs.X_fit_[1])
    THEN PredictRaise(TRUE, <<"dtype_", "X_fit_">>, TRUE, "ValueError")
    ELSE
    LET K == IF self.kernel = "precomputed" THEN X
             ELSE CrossKernel(X, attrs.X_fit_[1])
        reads == <<"dtype_", "X_fit_", "n_features_in_">>
    IN  IF <<Cols(X)>> # attrs.n_features_in_
        THEN PredictRaise(TRUE, reads, TRUE, "AssertionError")
        ELSE IF attrs.dual_coef_ = <<>>
        THEN PredictRaise(TRUE, reads \o <<"dual_coef_">>, TRUE,
                          "AttributeError")
        ELSE PredictReturn(reads \o <<"dual_coef_">>,
                 [op |-> "K @ dual_coef_", K |-> K,
                  dual_coef |-> attrs.dual_coef_[1], deltas |-> <<>>])

\* _BaseWeightedKernelRidge.predict, lines 243-259; score, lines 278-295,
\* takes the same steps and ends in predict_and_score_weighted_kernel_ridge.
WeightedPredict(self, attrs, X, function) ==
    IF ~IsFitted(attrs)
    THEN PredictRaise(FALSE, <<>>, FALSE, "NotFittedError")
    ELSE IF attrs.dtype_ = <<>>
    THEN PredictRaise(TRUE, <<"dtype_">>, FALSE, "AttributeError")
    ELSE IF attrs.X_fit_ = <<>>
    THEN PredictRaise(TRUE, <<"dtype_", "X_fit_">>, FALSE, "AttributeError")
    ELSE IF self.kernels.kind = "other"
    THEN PredictRaise(TRUE, <<"dtype_", "X_fit_">>, FALSE, "ValueError")
    ELSE IF self.kernels.kind = "list" /\ Cols(X) # Cols(attrs.X_fit_[1])
    THEN PredictRaise(TRUE, <<"dtype_", "X_fit_">>, TRUE, "ValueError")
    ELSE
    LET Ks == IF self.kernels.kind = "precomputed" THEN X
              ELSE [i \in 1..Len(Zip(self.kernels.list, KernelsParams(self)))
                        |-> CrossKernel(X, attrs.X_fit_[1])]
        reads == <<"dtype_", "X_fit_", "n_features_in_">>
    IN  IF <<LastDim(self, X)>> # attrs.n_features_in_
        THEN PredictRaise(TRUE, reads, TRUE, "AssertionError")
        ELSE IF attrs.dual_coef_ = <<>>
        THEN PredictRaise(TRUE, reads \o <<"dual_coef_">>, TRUE,
                          "AttributeError")
        ELSE IF attrs.deltas_ = <<>>
        THEN PredictRaise(TRUE, reads \o <<"dual_coef_", "deltas_">>, TRUE,
                          "AttributeError")
        ELSE PredictReturn(reads \o <<"dual_coef_", "deltas_">>,
                 [op |-> function, K |-> Ks,
                  dual_coef |-> attrs.dual_coef_[1],
                  deltas |-> attrs.deltas_])

\* estimator.predict(X)
PredictOf(self, attrs, X) ==
    IF self.cls = "KernelRidge"
    THEN KernelRidgePredict(self, attrs, X)
    ELSE WeightedPredict(self, attrs, X, "predict_weighted_kernel_ridge")

\* estimator.score(X, y): KernelRidge.score (lines 197-202) is r2_score of
\* self.predict(X).
ScoreOf(self, attrs, X, y) ==
    IF self.cls = "KernelRidge"
    THEN LET p == KernelRidgePredict(self, attrs, X)
         IN  IF p.raised # "" THEN p
             ELSE [p EXCEPT !.result = <<[p.result[1] EXCEPT !.op = "r2_score"]>>]
    ELSE WeightedPredict(self, attrs, X,
                         "predict_and_score_weighted_kernel_ridge")

---------------------------------------------------------------------------
\* The calls of solve_ridge_svd.

Methods == {"svd", "eigh"}
Policies == {"zeros", "nan", "error", "clip"}
YCoef == {<<1, 0>>, <<0, 1>>, <<1, 1>>}
YSet(n, T) ==
    {[i \in 1..n |-> [t \in 1..T |-> c[1] * i + c[2] * t]] : c \in YCoef}
Scalar(a) == [scalar |-> TRUE, num |-> a, arr |-> <<>>]
PerTarget(v) == [scalar |-> FALSE, num |-> 0, arr |-> v]
AlphaSet(T) ==
    {Scalar(a) : a \in 1..MaxAlpha}
    \cup {PerTarget([t \in 1..T |-> a]) : a \in 1..MaxAlpha}
    \cup {PerTarget([t \in 1..T |-> ((t - 1) % MaxAlpha) + 1])}

NoReturn == Raised("", "", <<>>)

\* The estimator part at rest, while solve_ridge_svd is followed.
NoEstimator ==
    [cls |-> "", alpha |-> 0, kernel |-> "", kernels |-> [kind |-> "", list |-> <<>>],
     kernels_params |-> [none |-> TRUE, list |-> <<>>], solver |-> "",
     deltas |-> DefaultDeltas, cv |-> 0]
NoFit ==
    [X |-> <<>>, y |-> [ndim |-> 0, val |-> <<>>],
     sample_weight |-> [none |-> TRUE, val |-> <<>>], shares |-> FALSE,
     callerX |-> <<>>, raised |-> "", msg |-> "", calls |-> <<>>,
     before |-> Unfitted]

NoDescent ==
    [state |-> "", K |-> 0, Y |-> 0, alpha |-> 0, step |-> 0, tol |-> 0,
     max_iter |-> 0, dual |-> 0, n_iter |-> 0, result |-> <<>>,
     raised |-> ""]

NoPredict ==
    [op |-> "", X |-> <<>>, checked |-> FALSE, reads |-> <<>>,
     kernels |-> FALSE, raised |-> "", result |-> <<>>]

Init ==
    /\ pc = "call"
    /\ ret = NoReturn
    /\ estimator = NoEstimator
    /\ fitted = Unfitted
    /\ fitcall = NoFit
    /\ nfits = 0
    /\ predcall = NoPredict
    /\ gd = NoDescent
    /\ \E n, f \in 1..MaxDim, T \in 1..MaxTargets :
         \E d \in Factorisations(n, f), Yin \in YSet(n, T), a \in AlphaSet(T),
            m \in Methods, p \in Policies :
            /\ backend = [svd |-> d]
            /\ call = [X |-> Product(d), Y |-> Yin, alpha |-> a, method |-> m,
                       negative_eigenvalues |-> p]

Solve ==
    /\ pc = "call"
    /\ ret' = solve_ridge_svd(call.X, call.Y, call.alpha, call.method,
                              call.negative_eigenvalues, backend.svd)
    /\ pc' = "done"
    /\ UNCHANGED <<call, backend>>
    /\ UNCHANGED <<fitVars, gd>>

Next == Solve

Spec == Init /\ [][Next]_vars

---------------------------------------------------------------------------
\* The fit calls of the estimators.

\* The constructor's parameters (lines 84-90, 402-408, 567-575).
KernelsSet ==
    {[kind |-> "precomputed", list |-> <<>>],
     [kind |-> "list", list |-> <<"linear">>],
     [kind |-> "list", list |-> <<"linear", "linear">>],
     [kind |-> "other", list |-> <<>>]}
\* A dict of kernel parameters is the sequence of its values: {} is <<>>.
KernelsParamsSet(kernels) ==
    {[none |-> TRUE, list |-> <<>>]}
    \cup (IF kernels.kind = "list"
          THEN {[none |-> FALSE, list |-> [i \in 1..n |-> <<i>>]] :
                    n \in 1..MaxKernels}
          ELSE {})
\* deltas: "zeros", an array of shape (n,), or an array of shape (1, T).
DeltasSet ==
    {DefaultDeltas}
    \cup {[zeros |-> FALSE, ndim |-> 1, val |-> [k \in 1..n |-> 1]] :
              n \in 1..MaxKernels}
    \cup {[zeros |-> FALSE, ndim |-> 2, val |-> <<[t \in 1..T |-> 1]>>] :
              T \in 2..3}
NoKernels == [kind |-> "", list |-> <<>>]
NoParams == [none |-> TRUE, list |-> <<>>]
Estimators ==
    {[cls |-> "KernelRidge", alpha |-> 1, kernel |-> k, kernels |-> NoKernels,
      kernels_params |-> NoParams, solver |-> s,
      deltas |-> DefaultDeltas, cv |-> 0] :
        k \in {"precomputed", "linear"},
        s \in {"eigenvalues", "conjugate_gradient", "unknown"}}
    \cup UNION {{[cls |-> "MultipleKernelRidgeCV", alpha |-> 0, kernel |-> "",
                  kernels |-> ks, kernels_params |-> kp, solver |-> s,
                  deltas |-> DefaultDeltas, cv |-> 5] :
                    kp \in KernelsParamsSet(ks),
                    s \in {"random_search", "unknown"}} : ks \in KernelsSet}
    \cup {e \in UNION {{[cls |-> "WeightedKernelRidge", alpha |-> a,
                         kernel |-> "", kernels |-> ks, kernels_params |-> kp,
                         solver |-> s, deltas |-> d, cv |-> 0] :
                           kp \in KernelsParamsSet(ks),
                           s \in {"conjugate_gradient", "unknown"},
                           d \in DeltasSet, a \in 1..2} : ks \in KernelsSet} :
              e.alpha = 1 \/ e.deltas = DefaultDeltas}

Precomputed(self) ==
    self.kernel = "precomputed" \/ self.kernels.kind = "precomputed"

\* The arrays a caller passes: features, the kernel of these features, or a
\* stack of such kernels.
Features(n) == [i \in 1..n |-> <<i, 1>>]
XSet(self) ==
    IF self.kernels.kind = "precomputed"
    THEN {[k \in 1..nk |-> LinearKernel(Features(n))] :
              nk \in 1..MaxKernels, n \in 1..MaxSamples}
    ELSE IF self.kernel = "precomputed"
    THEN {LinearKernel(Features(n)) : n \in 1..MaxSamples}
    ELSE {Features(n) : n \in 1..MaxSamples}
TargetSet ==
    {[ndim |-> 1, val |-> [i \in 1..n |-> i]] : n \in 1..MaxSamples}
    \cup {[ndim |-> 2, val |-> [i \in 1..n |-> <<i, i + 1>>]] :
              n \in 1..MaxSamples}
WeightSet ==
    {[none |-> TRUE, val |-> <<>>]}
    \cup {[none |-> FALSE, val |-> [i \in 1..n |-> IF i = 1 THEN 4 ELSE 1]] :
              n \in 1..MaxSamples}

InitFit ==
    /\ call = [X |-> <<>>, Y |-> <<>>, alpha |-> Scalar(0), method |-> "",
               negative_eigenvalues |-> ""]
    /\ backend = [svd |-> NoDecomposition]
    /\ ret = NoReturn
    /\ pc = "done"
    /\ estimator \in Estimators
    /\ fitted = Unfitted
    /\ fitcall = NoFit
    /\ nfits = 0
    /\ predcall = NoPredict
    /\ gd = NoDescent

\* estimator.fit(X, y, sample_weight). shares: the array fit works on after
\* check_array is the caller's own array (an array of the accepted dtype),
\* not a converted copy of it; fit writes into X only when X is a
\* precomputed kernel.
Fit ==
    /\ nfits < MaxFits
    /\ \E X \in XSet(estimator), y \in TargetSet, w \in WeightSet,
          shares \in IF Precomputed(estimator) THEN BOOLEAN ELSE {FALSE} :
          LET r == FitOf(estimator, fitted, X, y, w)
          IN  /\ fitted' = r.fitted
              /\ fitcall' = [X |-> X, y |-> y, sample_weight |-> w,
                             shares |-> shares,
                             callerX |-> IF shares THEN r.X ELSE X,
                             raised |-> r.raised, msg |-> r.msg,
                             calls |-> r.calls, before |-> fitted]
    /\ nfits' = nfits + 1
    /\ predcall' = NoPredict
    /\ UNCHANGED estimator
    /\ UNCHANGED <<solverVars, gd>>

\* estimator.predict(X)
Predict ==
    /\ \E X \in XSet(estimator) :
          LET r == PredictOf(estimator, fitted, X)
          IN  predcall' = [op |-> "predict", X |-> X, checked |-> r.checked,
                           reads |-> r.reads, kernels |-> r.kernels,
                           raised |-> r.raised, result |-> r.result]
    /\ UNCHANGED <<estimator, fitted, fitcall, nfits>>
    /\ UNCHANGED <<solverVars, gd>>

\* estimator.score(X, y)
Score ==
    /\ \E X \in XSet(estimator) :
          LET y == [ndim |-> 1, val |-> [i \in 1..SamplesOf(estimator, X) |-> i]]
              r == ScoreOf(estimator, fitted, X, y)
          IN  predcall' = [op |-> "score", X |-> X, checked |-> r.checked,
                           reads |-> r.reads, kernels |-> r.kernels,
                           raised |-> r.raised, result |-> r.result]
    /\ UNCHANGED <<estimator, fitted, fitcall, nfits>>
    /\ UNCHANGED <<solverVars, gd>>

NextFit == Fit \/ Predict \/ Score

SpecFit == InitFit /\ [][NextFit]_vars

---------------------------------------------------------------------------
\* The gradient-descent solver of the dual coefficients, for one sample, one
\* kernel and one target: the numbers K, Y, alpha, the step size, the
\* tolerance (0: no tolerance check) and max_iter. The dual coefficient, the
\* gradient and the tolerance are whole numbers of units of 1 / 4^MaxIter and
\* the step size is a number of quarters, so that max_iter steps are exact.
Unit == 4 ^ MaxIter

\* The gradient of the objective with respect to the dual coefficient:
\* K @ dual - Y + alpha * dual.
Gradient(g) == g.K * g.dual - g.Y * Unit + g.alpha * g.dual
\* The norm of the gradient is below tol.
BelowTolerance(g) == Abs(Gradient(g)) < g.tol
\* A descent step: dual - step * gradient.
Descend(g) == g.dual - (g.step * Gradient(g)) \div 4
IterationsLeftInclusive(g) == g.n_iter <= g.max_iter
\* The loop goes on while fewer than max_iter iterations are made.
IterationsLeft(g) == g.n_iter < g.max_iter

\* Step sizes 1/4, 1/2 and 1; tolerances 0, 1/2 and 1; starts 0 and 1.
Steps == {1, 2, 4}
Tolerances == {0, Unit \div 2, Unit}
WarmStarts == {0, Unit}

InitGD ==
    /\ pc = "done"
    /\ ret = NoReturn
    /\ call = [X |-> <<>>, Y |-> <<>>, alpha |-> Scalar(0), method |-> "",
               negative_eigenvalues |-> ""]
    /\ backend = [svd |-> NoDecomposition]
    /\ estimator = NoEstimator
    /\ fitted = Unfitted
    /\ fitcall = NoFit
    /\ nfits = 0
    /\ predcall = NoPredict
    /\ \E K \in 1..2, Y \in 0..2, step \in Steps, tol \in Tolerances,
          max_iter \in 0..MaxIter, start \in WarmStarts :
          gd = [state |-> "Init", K |-> K, Y |-> Y, alpha |-> 1,
                step |-> step, tol |-> tol, max_iter |-> max_iter,
                dual |-> start, n_iter |-> 0, result |-> <<>>, raised |-> ""]

\* Init -> Iterate: the dual coefficients are zero or the warm start.
GDStart ==
    /\ gd.state = "Init"
    /\ gd' = [gd EXCEPT !.state = "Iterate"]
    /\ UNCHANGED <<solverVars, fitVars>>

\* One iteration: a descent step along the gradient, then the tolerance
\* check.
GDIterate ==
    /\ gd.state = "Iterate"
    /\ IterationsLeft(gd)
    /\ LET stepped == [gd EXCEPT !.dual = Descend(gd),
                                 !.n_iter = gd.n_iter + 1]
       IN  gd' = IF BelowTolerance(stepped)
                 THEN [stepped EXCEPT !.state = "Converged",
                                      !.result = <<stepped.dual>>]
                 ELSE stepped
    /\ UNCHANGED <<solverVars, fitVars>>

\* max_iter iterations are made: a silent stop with the current iterate.
GDStop ==
    /\ gd.state = "Iterate"
    /\ ~IterationsLeft(gd)
    /\ gd' = [gd EXCEPT !.state = "MaxIterReached", !.result = <<gd.dual>>]
    /\ UNCHANGED <<solverVars, fitVars>>

NextGD == GDStart \/ GDIterate \/ GDStop

\* The solver is a sequential loop: a step that can be taken is taken.
SpecGD == InitGD /\ [][NextGD]_vars /\ WF_vars(NextGD)

---------------------------------------------------------------------------
\* Properties of solve_ridge_svd, checked under Spec.

Done == pc = "done"
svd == backend.svd
TrueSvd == \A b \in 1..Len(svd.eigenvalues) : svd.eigenvalues[b] >= 0
SomeNegative == \E b \in 1..Len(svd.eigenvalues) : svd.eigenvalues[b] < 0
FirstNegative == svd.eigenvalues[1] < 0
CallAlpha == AsFloat1(AlphaArray(call.alpha))
AlphaOf(al, t) == IF Len(al) = 1 THEN al[1] ELSE al[t]
IsAllNan(r, Yin) ==
    /\ r.status = "returned"
    /\ Rows(r.weights) = Rows(Yin) /\ Cols(r.weights) = Cols(Yin)
    /\ \A i \in 1..Rows(Yin), t \in 1..Cols(Yin) : r.weights[i][t] = NaN
HasShape(M, r, c) == Len(M) = r /\ \A i \in 1..r : Len(M[i]) = c

\* K is symmetric positive semi-definite and svd is its singular value
\* decomposition: K = U @ diag(s) @ U.T with every s >= 0.
SymmetricPSD ==
    /\ Rows(call.X) = Cols(call.X)
    /\ TrueSvd
    /\ svd.Vt = Transpose(svd.U)

\* (K + alpha_t * I) @ W[:, t] = Y[:, t] for every target t
SolvesLinearSystem(K, Yin, al, W) ==
    /\ HasShape(W, Rows(K), Cols(Yin))
    /\ \A t \in 1..Cols(Yin), i \in 1..Rows(K) :
         RSum([j \in 1..Cols(K) |->
                  RMul(RAdd(<<K[i][j], 1>>,
                            IF i = j THEN AlphaOf(al, t) ELSE Zero),
                       W[j][t])], Cols(K)) = <<Yin[i][t], 1>>

ClosedForm(d, Yin, al) ==
    [i \in 1..Cols(d.Vt) |-> [t \in 1..Cols(Yin) |->
        RSum([b \in 1..Len(d.eigenvalues) |->
                 RMul(RMul(<<d.Vt[b][i], 1>>,
                           RDiv(<<d.eigenvalues[b], 1>>,
                                RAdd(AlphaOf(al, t),
                                     <<d.eigenvalues[b] * d.eigenvalues[b], 1>>))),
                      RSum([j \in 1..Rows(Yin) |->
                               <<d.U[j][b] * Yin[j][t], 1>>], Rows(Yin)))],
             Len(d.eigenvalues))]]

Filled(alpha, T) ==
    IF alpha.scalar THEN PerTarget([t \in 1..T |-> alpha.num]) ELSE alpha

\* C2: solve_ridge_svd(X, Y, alpha) returns, for every target t,
\* weights[:, t] = V @ diag(s / (s ** 2 + alpha_t)) @ U.T @ Y[:, t], and a
\* number alpha gives the result of the per-target array filled with it.
C2_ClosedFormPerTarget ==
    (Done /\ call.method = "svd" /\ call.negative_eigenvalues = "zeros"
          /\ TrueSvd)
        => /\ ret.status = "returned"
           /\ ret.weights = ClosedForm(svd, call.Y, CallAlpha)
           /\ ret = solve_ridge_svd(call.X, call.Y,
                                    Filled(call.alpha, Cols(call.Y)),
                                    call.method, call.negative_eigenvalues, svd)

\* What lines 49 and 72-80 return when they are given the values `eig`.
WeightsFrom(eig) ==
    FormWeights(Inverse(eig, CallAlpha), AsFloat(svd.U), AsFloat(svd.Vt),
                AsFloat(call.Y), eig)

\* C3: under negative_eigenvalues = "zeros" the weights returned are the
\* weights computed from the clamped values.
C3_ZerosClampsBeforeSolution ==
    (Done /\ call.method = "svd" /\ call.negative_eigenvalues = "zeros"
          /\ FirstNegative)
        => ret = WeightsFrom(Clamp(AsFloat1(svd.eigenvalues)))

C5_NegativeNeverIgnored ==
    (Done /\ call.method = "svd" /\ SomeNegative)
        => CASE call.negative_eigenvalues = "error" ->
                    ret.status = "raised" /\ ret.error = "RuntimeError"
             [] call.negative_eigenvalues = "zeros" ->
                    \A b \in 1..Len(ret.eigenvalues) :
                        ~RLt(ret.eigenvalues[b], Zero)
             [] call.negative_eigenvalues = "nan" ->
                    Len(AlphaArray(call.alpha)) = 1 =>
                        (IsAllNan(ret, call.Y) <=>
                            \E b \in 1..Len(svd.eigenvalues) :
                                /\ svd.eigenvalues[b] < 0
                                /\ AlphaArray(call.alpha)[1]
                                       < 2 * Abs(svd.eigenvalues[b]))
             [] OTHER -> TRUE

\* C6: the two orderings of the matrix products give the same weights, of
\* shape (n_features, n_targets), for every X, Y and alpha (stated on the
\* inputs for which the first ordering is the one taken).
C6_OrderingsAgree ==
    (Done /\ call.method = "svd" /\ TrueSvd /\ Rows(call.Y) < Cols(call.Y))
        => LET iUT == InverseUT(Inverse(AsFloat1(svd.eigenvalues), CallAlpha),
                                AsFloat(svd.U))
               Vt == AsFloat(svd.Vt)
               Yf == AsFloat(call.Y)
           IN  /\ CanWeightsFewSamples(Vt, iUT, Yf)
               /\ WeightsFewSamples(Vt, iUT, Yf) = WeightsManySamples(Vt, iUT, Yf)
               /\ HasShape(WeightsFewSamples(Vt, iUT, Yf),
                           Cols(call.X), Cols(call.Y))

\* C10 (solve_ridge_svd): an unrecognized method or an unrecognized
\* negative_eigenvalues policy raises for every X, Y and alpha.
C10_ConfigurationErrorsAtEntry ==
    (Done /\ (call.method # "svd"
              \/ call.negative_eigenvalues \notin {"zeros", "nan", "error"}))
        => /\ ret.status = "raised" /\ ret.error = "ValueError"
           /\ ret.msg \in {"Unknown method", "Unknown negative_eigenvalues"}

---------------------------------------------------------------------------
\* Properties of the fit methods, checked under SpecFit.

FitDone == nfits > 0
FitReturned == FitDone /\ fitcall.raised = ""
Weighted == FitDone /\ ~fitcall.sample_weight.none

\* diag(v)
Diag(v) == [i \in 1..Len(v) |-> [j \in 1..Len(v) |-> IF i = j THEN v[i] ELSE 0]]
SqrtWeights(w) == [i \in 1..Len(w) |-> Sqrt(w[i])]

\* The kernel, or the stack of kernels, of the fit call: X itself when it is
\* precomputed, the kernels of the features X otherwise.
KernelsOfCall ==
    IF estimator.cls = "KernelRidge"
    THEN GetKernel(estimator, fitcall.X)
    ELSE GetKernels(estimator, fitcall.X).kernels

\* diag(sqrt(w)) * K * diag(sqrt(w)), as two matrix products
Rescaled(K, w) == IMatMul(IMatMul(Diag(SqrtWeights(w)), K), Diag(SqrtWeights(w)))
ManualKernels ==
    IF estimator.cls = "KernelRidge"
    THEN Rescaled(KernelsOfCall, fitcall.sample_weight.val)
    ELSE [k \in 1..Len(KernelsOfCall) |->
              Rescaled(KernelsOfCall[k], fitcall.sample_weight.val)]
\* diag(sqrt(w)) * Y
ManualTargets ==
    LET D == Diag(SqrtWeights(fitcall.sample_weight.val))
    IN  IF fitcall.y.ndim = 1
        THEN [ndim |-> 1,
              val |-> LET c == IMatMul(D, AddAxis(fitcall.y.val))
                      IN  [i \in 1..Len(c) |-> c[i][1]]]
        ELSE [ndim |-> 2, val |-> IMatMul(D, fitcall.y.val)]
\* The same estimator, told that its kernels are precomputed.
AsPrecomputed(self) ==
    IF self.cls = "KernelRidge"
    THEN [self EXCEPT !.kernel = "precomputed"]
    ELSE [self EXCEPT !.kernels = [kind |-> "precomputed", list |-> <<>>],
                      !.kernels_params = [none |-> TRUE, list |-> <<>>]]
ManualFit ==
    FitOf(AsPrecomputed(estimator), Unfitted, ManualKernels, ManualTargets,
          [none |-> TRUE, val |-> <<>>])

\* C7: a fit with sample_weight = w that returns gives the dual coefficients
\* of the fit without sample weights on diag(sqrt(w)) K diag(sqrt(w)) (each
\* kernel of the stack) and diag(sqrt(w)) Y, and the one solver call it makes
\* receives exactly this kernel and these targets.
C7_WeightingEquivalence ==
    (Weighted /\ FitReturned) =>
        /\ ManualFit.raised = ""
        /\ fitted.dual_coef_ = ManualFit.fitted.dual_coef_
        /\ Len(fitcall.calls) = 1
        /\ fitcall.calls[1].Ks = ManualKernels
        /\ fitcall.calls[1].Y = Targets2d(ManualTargets)

C7_Witness ==
    /\ Weighted /\ FitReturned
    /\ fitcall.sample_weight.val = <<4, 1>>
    /\ estimator.cls = "MultipleKernelRidgeCV"
    /\ estimator.kernels.kind = "list"
    /\ fitted.dual_coef_ # <<>>

\* C8: after a fit call on a precomputed kernel or stack, the array the
\* caller passed holds the values it held before the call, and X_fit_ holds
\* these values.
C8_CallerKernelReadOnly ==
    (FitDone /\ Precomputed(estimator)) =>
        /\ fitcall.callerX = fitcall.X
        /\ FitReturned => fitted.X_fit_ = <<fitcall.X>>

\* The solver table of the estimator's class.
SolverTable(self) ==
    CASE self.cls = "KernelRidge" -> KERNEL_RIDGE_SOLVERS
      [] self.cls = "MultipleKernelRidgeCV" -> MULTIPLE_KERNEL_RIDGE_SOLVERS
      [] self.cls = "WeightedKernelRidge" -> WEIGHTED_KERNEL_RIDGE_SOLVERS

\* C9: fit with a solver that is not in the estimator's table raises
\* ValueError, calls no solver function and leaves dual_coef_ as it was.
C9_UnknownSolverFailsFast ==
    (FitDone /\ estimator.solver \notin SolverTable(estimator)) =>
        /\ fitcall.raised = "ValueError"
        /\ fitcall.calls = <<>>
        /\ fitted.dual_coef_ = fitcall.before.dual_coef_

\* The sample count of the X of the fit call: X.shape[1] of a stack of
\* kernels, X.shape[0] of features or of one kernel.
SamplesOfCall ==
    IF estimator.kernels.kind = "precomputed"
    THEN Len(fitcall.X[1]) ELSE Len(fitcall.X)
SampleMismatch ==
    \/ SamplesOfCall # Len(fitcall.y.val)
    \/ Weighted /\ Len(fitcall.sample_weight.val) # Len(fitcall.y.val)
\* deltas given by the user whose first dimension is not the size of the
\* kernel stack of the call
DeltasMismatch ==
    /\ estimator.cls = "WeightedKernelRidge"
    /\ ~estimator.deltas.zeros
    /\ Len(estimator.deltas.val) # Len(KernelsOfCall)

\* C11: a fit call whose X and y disagree on the number of samples, whose
\* sample_weight and y disagree on it, or whose deltas (WeightedKernelRidge)
\* disagree with the size of the kernel stack, raises ValueError and calls no
\* solver.
C11_ShapeMismatchFailsFast ==
    (FitDone /\ (SampleMismatch \/ DeltasMismatch)) =>
        /\ fitcall.raised = "ValueError"
        /\ fitcall.calls = <<>>

C11_Witness ==
    /\ FitDone /\ ~SampleMismatch /\ DeltasMismatch
    /\ estimator.kernels.kind = "precomputed"
    /\ fitcall.raised = "ValueError"
    /\ fitcall.msg = "Inconsistent number of kernels."

\* The shape of an array of numbers given with its ndim.
ArrayShape(a) ==
    IF a.ndim = 1 THEN <<Len(a.val)>> ELSE <<Len(a.val), Len(a.val[1])>>
\* deltas_.shape: WeightedKernelRidge holds an array of numbers, the
\* cross-validated estimator an array its solver returned.
DeltasShape ==
    IF estimator.cls = "WeightedKernelRidge"
    THEN ArrayShape(fitted.deltas_[1]) ELSE fitted.deltas_[1].shape

\* C12: after a fit that returns, dual_coef_ has the shape of the y of the
\* call, (n_samples,) or (n_samples, n_targets), and for the two multi-kernel
\* estimators a 1-d y gives deltas_ of shape (n_kernels,).
C12_FittedShapesFollowY ==
    FitReturned =>
        /\ fitted.dual_coef_[1].shape = ArrayShape(fitcall.y)
        /\ (estimator.cls # "KernelRidge" /\ fitcall.y.ndim = 1) =>
               DeltasShape = <<Len(KernelsOfCall)>>

C12_Witness ==
    /\ FitReturned
    /\ fitcall.y.ndim = 1
    /\ estimator.cls = "MultipleKernelRidgeCV"
    /\ Len(KernelsOfCall) = 2
    /\ fitted.dual_coef_[1].shape = <<2>>
    /\ DeltasShape = <<2>>

\* C13: after a WeightedKernelRidge fit that returns, on a 2-d y of n_targets
\* columns, deltas_ has shape (n_kernels, n_targets).
C13_DeltasShapePerTarget ==
    (FitReturned /\ estimator.cls = "WeightedKernelRidge"
       /\ fitcall.y.ndim = 2) =>
        DeltasShape = <<Len(KernelsOfCall), Len(fitcall.y.val[1])>>

\* The number of targets of the y of the fit call.
TargetsOfCall == IF fitcall.y.ndim = 1 THEN 1 ELSE Len(fitcall.y.val[1])
\* A WeightedKernelRidge fit call with deltas given by the user, in which
\* nothing but the second dimension of deltas can be wrong.
UserDeltasCall ==
    /\ FitDone /\ estimator.cls = "WeightedKernelRidge"
    /\ ~estimator.deltas.zeros
    /\ estimator.kernels.kind # "other"
    /\ estimator.solver \in WEIGHTED_KERNEL_RIDGE_SOLVERS
    /\ ~SampleMismatch /\ ~DeltasMismatch
DeltasTargetsMismatch ==
    /\ estimator.deltas.ndim = 2
    /\ Len(estimator.deltas.val[1]) # TargetsOfCall

\* C14: WeightedKernelRidge.fit with deltas of shape (n_kernels,) or
\* (n_kernels, n_targets) returns, keeps these values as deltas_ and hands
\* them to the solver; with a 2-d deltas of another second dimension it
\* raises ValueError "Inconsistent number of targets.".
C14_UserDeltasAccepted ==
    UserDeltasCall =>
        IF DeltasTargetsMismatch
        THEN /\ fitcall.raised = "ValueError"
             /\ fitcall.msg = "Inconsistent number of targets."
        ELSE /\ fitcall.raised = ""
             /\ Len(fitcall.calls) = 1
             /\ fitcall.calls[1].deltas # <<>>
             /\ fitted.deltas_ # <<>>
             /\ fitted.deltas_[1].val = estimator.deltas.val

\* C15: the solver call of WeightedKernelRidge.fit is given the alpha of the
\* estimator as its regularization.
C15_SolverGetsAlpha ==
    (FitReturned /\ estimator.cls = "WeightedKernelRidge") =>
        /\ Len(fitcall.calls) = 1
        /\ fitcall.calls[1].alpha = <<estimator.alpha>>

\* An estimator of one linear kernel, whose last fit call returned.
FittedOnLinearKernel ==
    /\ FitReturned
    /\ \/ estimator.cls = "KernelRidge" /\ estimator.kernel = "linear"
       \/ estimator.cls # "KernelRidge" /\ estimator.kernels.kind = "list"
            /\ estimator.kernels.list = <<"linear">>
\* A kernel as the estimator takes it precomputed: alone, or a stack of one.
AsStack(K) == IF estimator.cls = "KernelRidge" THEN K ELSE <<K>>
\* The fit of the same estimator on the precomputed kernel X X'.
PrecomputedFit ==
    FitOf(AsPrecomputed(estimator), Unfitted,
          AsStack(IMatMul(fitcall.X, Transpose(fitcall.X))), fitcall.y,
          fitcall.sample_weight)
\* Its prediction on the precomputed kernel between the predicted samples
\* and the training samples.
PrecomputedPredict ==
    PredictOf(AsPrecomputed(estimator), PrecomputedFit.fitted,
              AsStack(IMatMul(predcall.X, Transpose(fitcall.X))))

\* C16: an estimator of one linear kernel fitted on features X has the
\* dual_coef_ of the same estimator fitted on the precomputed kernel X X',
\* and its predict on features equals the predict of that one on the
\* precomputed kernel of these features with X.
C16_LinearEqualsPrecomputed ==
    FittedOnLinearKernel =>
        /\ PrecomputedFit.raised = ""
        /\ fitted.dual_coef_ = PrecomputedFit.fitted.dual_coef_
        /\ predcall.op = "predict" =>
               /\ predcall.raised = ""
               /\ PrecomputedPredict.raised = ""
               /\ predcall.result = PrecomputedPredict.result

C16_Witness ==
    /\ FittedOnLinearKernel
    /\ estimator.cls = "MultipleKernelRidgeCV"
    /\ Len(fitcall.X) = 2
    /\ predcall.op = "predict" /\ predcall.raised = ""
    /\ Len(predcall.X) = 1

\* C18: a fit call that raises leaves every fitted attribute as it was before
\* the call, so that the attributes always come from one fit call.
C18_RaisingFitLeavesAttributes ==
    (FitDone /\ fitcall.raised # "") =>
        /\ fitted.dtype_ = fitcall.before.dtype_
        /\ fitted.dual_coef_ = fitcall.before.dual_coef_
        /\ fitted.cv_scores_ = fitcall.before.cv_scores_
        /\ fitted.X_fit_ = fitcall.before.X_fit_
        /\ fitted.n_features_in_ = fitcall.before.n_features_in_
        /\ fitted.deltas_ = fitcall.before.deltas_

\* No fit call on the estimator has returned: dual_coef_ is assigned by the
\* fits that return and by no other.
NeverFitted == fitted.dual_coef_ = <<>>

\* C19: on an estimator none of whose fit calls returned, predict and score
\* are refused by check_is_fitted: they compute no kernel and read no fitted
\* attribute.
C19_PredictNeedsReturnedFit ==
    (predcall.op # "" /\ NeverFitted) =>
        /\ ~predcall.checked
        /\ predcall.raised = "NotFittedError"
        /\ predcall.reads = <<>>
        /\ ~predcall.kernels

\* C20: for a list of kernels, the stack _get_kernels builds in fit has
\* len(kernels) matrices, the i-th computed with kernels[i] and with
\* kernels_params[i] when kernels_params is given, and fit hands its solver
\* a stack of that length.
C20_StackHasEveryKernel ==
    (FitDone /\ estimator.kernels.kind = "list") =>
        LET built == GetKernels(estimator, fitcall.X)
            kernels == estimator.kernels.list
            given == estimator.kernels_params
        IN  /\ Len(built.kernels) = Len(kernels)
            /\ Len(built.pairs) = Len(kernels)
            /\ \A i \in 1..Len(kernels) :
                   /\ built.pairs[i].metric = kernels[i]
                   /\ ~given.none =>
                          /\ i <= Len(given.list)
                          /\ built.pairs[i].params = given.list[i]
            /\ FitReturned => Len(fitcall.calls[1].Ks) = Len(kernels)

---------------------------------------------------------------------------
\* Properties of the gradient-descent solver, checked under SpecGD.

Terminal == gd.state \in {"Converged", "MaxIterReached"}
\* The steps of Init -> Iterate -> {Converged | MaxIterReached}; a terminal
\* state is left by no step.
GDTransition ==
    \/ gd.state = "Init" /\ gd'.state = "Iterate"
    \/ gd.state = "Iterate" /\ gd'.state \in {"Iterate", "Converged"}
         /\ gd'.n_iter = gd.n_iter + 1
    \/ gd.state = "Iterate" /\ gd'.state = "MaxIterReached"
         /\ gd'.n_iter = gd.n_iter /\ gd'.dual = gd.dual

\* C17: the solver goes Init -> Iterate -> {Converged | MaxIterReached}: it
\* makes at most max_iter iterations, from a zero or a warm start it ends in
\* one of the two terminal states and stays there, and in MaxIterReached it
\* has returned the current dual coefficients and raised nothing.
C17_DescentTerminates ==
    /\ [](gd.n_iter <= gd.max_iter)
    /\ [][GDTransition]_gd
    /\ <>[]Terminal
    /\ [](gd.state = "MaxIterReached" =>
              /\ gd.raised = ""
              /\ gd.result = <<gd.dual>>
              /\ gd.n_iter = gd.max_iter)

C17_Witness ==
    /\ gd.state = "MaxIterReached"
    /\ gd.max_iter = MaxIter
    /\ gd.n_iter = MaxIter
    /\ gd.dual # 0
    /\ gd.result = <<gd.dual>>

====
